---- MODULE Spec2Model ----
(***************************************************************************)
(* PageRank (src/pagerank.py): transition_model, the validator             *)
(* checkProbabilityDictionary, the random-walk estimator sample_pagerank   *)
(* and the fixed-point solver iterate_pagerank.                            *)
(*                                                                         *)
(* Numbers.  The program computes in Python floats.  Here a number is an   *)
(* integer count of 1/Unit: Unit is divisible by every page count, link    *)
(* count and sample count within the bounds and by 1000 and 20, so 1/N,    *)
(* 1/n, d, 1-d, d/L and 0.001 are exact, and every other quotient is       *)
(* rounded to the nearest 1/Unit (as a float quotient is rounded to the    *)
(* nearest float).  A damping factor is kept as the fraction num/den.      *)
(*                                                                         *)
(* Dictionaries are functions; a dict of the corpus iterates its keys in   *)
(* insertion order, modelled as 1..N ascending (every labelled graph is an *)
(* input, so every visiting order of every graph shape is covered).        *)
(***************************************************************************)
EXTENDS Integers, Sequences, FiniteSets, TLC

\* ---------------------------------------------------------------- bounds
MaxPages == 3
MaxWalkPages == 2
MaxSamples == 3

\* ------------------------------------------------------------- arithmetic
Unit == 64 * 27 * 625 * 7

One == Unit

RoundDiv(a, b) == (2 * a + b) \div (2 * b)

Abs(x) == IF x < 0 THEN 0 - x ELSE x

\* damping factors d = num/den in (0,1); DAMPING = 0.85 is 17/20
Dampings == { <<17, 20>>, <<1, 2>> }

Damping(d) == (Unit \div d[2]) * d[1]

\* damping_factor * x
TimesDamping(d, x) == RoundDiv(d[1] * x, d[2])

RECURSIVE SumOver(_, _)
SumOver(f, S) ==
    IF S = {} THEN 0
    ELSE LET p == CHOOSE q \in S : TRUE
         IN  f[p] + SumOver(f, S \ {p})

\* sum(model.values())
SumValues(model) == SumOver(model, DOMAIN model)

\* round(x, 3), as a count of thousandths (ties to even)
Round3(x) ==
    LET u == Unit \div 1000
        k == x \div u
        r == x % u
    IN  IF 2 * r < u THEN k
        ELSE IF 2 * r > u THEN k + 1
        ELSE IF k % 2 = 0 THEN k ELSE k + 1

\* ------------------------------------------------------------------ graph
\* crawl: pages[filename] = set(links) - {filename}, restricted to the corpus
GraphsOn(N) ==
    { g \in [1..N -> SUBSET (1..N)] : \A p \in 1..N : p \notin g[p] }

Graphs(maxN) == UNION { GraphsOn(N) : N \in 0..maxN }

\* list(corpus): the keys in insertion order
Keys(c) == [k \in 1..Cardinality(DOMAIN c) |-> k]

\* ------------------------------------------------- checkProbabilityDictionary
\* TRUE: returns True; FALSE: raises Exception
checkProbabilityDictionary(model) ==
    /\ \A p \in DOMAIN model : ~(model[p] > One \/ model[p] < 0)
    /\ Round3(SumValues(model)) = 1000

\* ------------------------------------------------------- transition_model
\* damping_factor*1/len(linkedPages)
linkedProbability(d, linkedPages) ==
    RoundDiv(TimesDamping(d, One), Cardinality(linkedPages))

\* (1-damping_factor)/(len(corpus))
randomSurferProbability(c, d) ==
    RoundDiv(One - Damping(d), Cardinality(DOMAIN c))

\* faulty variant of the second loop: the entry of a linked page is overwritten
addRandomSurfer_overwrite(tm, c, d) ==
    [p \in (DOMAIN c) \cup (DOMAIN tm) |->
        IF p \in DOMAIN c THEN randomSurferProbability(c, d) ELSE tm[p]]

\* lines 77-81, the second loop: accumulate into an entry already present
addRandomSurfer(tm, c, d) ==
    [p \in (DOMAIN c) \cup (DOMAIN tm) |->
        IF p \in DOMAIN c
        THEN IF p \in DOMAIN tm
             THEN tm[p] + randomSurferProbability(c, d)
             ELSE randomSurferProbability(c, d)
        ELSE tm[p]]

\* faulty variant: the sink case is never taken
isSink_never(linkedPages) == FALSE

\* if len(linkedPages) == 0
isSink(linkedPages) == Cardinality(linkedPages) = 0

\* the dictionary built before the validation
transitionDict(c, page, d) ==
    LET linkedPages == c[page]
        linked == [p \in linkedPages |-> linkedProbability(d, linkedPages)]
    IN  IF isSink(linkedPages)
        THEN [p \in DOMAIN c |-> RoundDiv(One, Cardinality(DOMAIN c))]
        ELSE addRandomSurfer(linked, c, d)

\* [raised |-> the validation raised, model |-> the dictionary]
transition_model(c, page, d) ==
    LET tm == transitionDict(c, page, d)
    IN  [raised |-> ~checkProbabilityDictionary(tm), model |-> tm]

\* random.choices(keys, weights): a key of positive weight
Choices(model) == { p \in DOMAIN model : model[p] > 0 }

\* ------------------------------------------------------------------ state
VARIABLES
    corpus,                   \* the graph: page -> set of linked pages
    damping_factor,           \* <<num, den>>
    n,                        \* number of samples
    pc,                       \* position in the running function
    outcome,                  \* "running", "returned" or the exception raised
    pageToSample,             \* the current page (loop variable of both estimators)
    i,                        \* sample_pagerank: loop index of range(1, n)
    transitionModel,          \* the last transition model computed
    estimatedSamplePageRank,  \* sample_pagerank: the accumulated credits
    iterativePageRank,        \* iterate_pagerank: the rank mapping, updated in place
    incomingPages,            \* iterate_pagerank: page -> pages linking to it
    pageRankChange,           \* iterate_pagerank: the round's cumulative delta
    todo,                     \* iterate_pagerank: pages the for loop has yet to visit
    oldRanks                  \* history: the rank mapping when the round began

vars == << corpus, damping_factor, n, pc, outcome, pageToSample, i,
           transitionModel, estimatedSamplePageRank, iterativePageRank,
           incomingPages, pageRankChange, todo, oldRanks >>

inputs == << corpus, damping_factor, n >>

sampleVars == << i, estimatedSamplePageRank >>

iterVars == << iterativePageRank, incomingPages, pageRankChange, todo, oldRanks >>

Empty == << >>

InitCommon ==
    /\ damping_factor \in Dampings
    /\ outcome = "running"
    /\ pageToSample = 0
    /\ i = 0
    /\ transitionModel = Empty
    /\ estimatedSamplePageRank = Empty
    /\ iterativePageRank = Empty
    /\ incomingPages = Empty
    /\ pageRankChange = 0
    /\ todo = << >>
    /\ oldRanks = Empty

\* ------------------------------------------------ transition_model, called
InitTransition ==
    /\ InitCommon
    /\ corpus \in Graphs(MaxPages) \ {Empty}
    /\ n = 1
    /\ pc = "transition_model"

\* transition_model(corpus, page, damping_factor) for a page of the corpus
TransitionCall ==
    /\ pc = "transition_model"
    /\ \E page \in DOMAIN corpus :
          LET r == transition_model(corpus, page, damping_factor)
          IN  /\ pageToSample' = page
              /\ transitionModel' = r.model
              /\ outcome' = IF r.raised THEN "Exception" ELSE "returned"
    /\ pc' = "done"
    /\ UNCHANGED << inputs, sampleVars, iterVars >>

NextTransition == TransitionCall

SpecTransition == InitTransition /\ [][NextTransition]_vars

\* --------------------------------------------------------- sample_pagerank
InitSample ==
    /\ InitCommon
    /\ corpus \in Graphs(MaxWalkPages)
    /\ n \in 1..MaxSamples
    /\ pc = "sample_pagerank"

\* faulty variant: a revisited page is set to 1/n again
credit_overwrite(est, page, samples) ==
    [p \in (DOMAIN est) \cup {page} |->
        IF p = page THEN RoundDiv(One, samples) ELSE est[p]]

\* lines 142-145: estimatedSamplePageRank[pageToSample] += 1/n, or = 1/n for a new key
credit(est, page, samples) ==
    [p \in (DOMAIN est) \cup {page} |->
        IF p = page
        THEN IF p \in DOMAIN est
             THEN est[p] + RoundDiv(One, samples)
             ELSE RoundDiv(One, samples)
        ELSE est[p]]

\* lines 119-124: the first sample; random.choice of an empty list raises IndexError
SampleStart ==
    /\ pc = "sample_pagerank"
    /\ IF DOMAIN corpus = {}
       THEN /\ pc' = "done"
            /\ outcome' = "IndexError"
            /\ UNCHANGED << pageToSample, i, estimatedSamplePageRank >>
       ELSE /\ \E page \in DOMAIN corpus :
                  /\ pageToSample' = page
                  /\ estimatedSamplePageRank' = (page :> RoundDiv(One, n))
            /\ i' = 1
            /\ pc' = "loop"
            /\ UNCHANGED outcome
    /\ UNCHANGED << inputs, transitionModel, iterVars >>

\* lines 125, 137-145: the transition model of the current page, a page drawn
\* from it, and that page credited
SampleCredit ==
    /\ pc = "loop"
    /\ i < n
    /\ LET r == transition_model(corpus, pageToSample, damping_factor)
       IN  /\ transitionModel' = r.model
           /\ IF r.raised
              THEN /\ pc' = "done"
                   /\ outcome' = "Exception"
                   /\ UNCHANGED << pageToSample, estimatedSamplePageRank >>
              ELSE /\ \E page \in Choices(r.model) :
                         /\ pageToSample' = page
                         /\ estimatedSamplePageRank' =
                                credit(estimatedSamplePageRank, page, n)
                   /\ pc' = "resample"
                   /\ UNCHANGED outcome
    /\ UNCHANGED << inputs, i, iterVars >>

\* random.choices(["sampleFromLinkedPage","sampleFromAllPages"],
\*                [damping_factor, 1-damping_factor])
SampleMethods(d) ==
    { m \in {"sampleFromLinkedPage", "sampleFromAllPages"} :
        IF m = "sampleFromLinkedPage" THEN Damping(d) > 0
                                      ELSE One - Damping(d) > 0 }

\* lines 148-152: the current page is drawn again
SampleResample ==
    /\ pc = "resample"
    /\ \E sampleMethod \in SampleMethods(damping_factor) :
          \E page \in (IF sampleMethod = "sampleFromLinkedPage"
                       THEN Choices(transitionModel)
                       ELSE DOMAIN corpus) :
              pageToSample' = page
    /\ i' = i + 1
    /\ pc' = "loop"
    /\ UNCHANGED << inputs, outcome, transitionModel, estimatedSamplePageRank,
                    iterVars >>

\* lines 155-156: the loop is over; validate and return
SampleReturn ==
    /\ pc = "loop"
    /\ ~(i < n)
    /\ outcome' = IF checkProbabilityDictionary(estimatedSamplePageRank)
                  THEN "returned" ELSE "Exception"
    /\ pc' = "done"
    /\ UNCHANGED << inputs, pageToSample, i, transitionModel,
                    estimatedSamplePageRank, iterVars >>

NextSample ==
    \/ SampleStart
    \/ SampleCredit
    \/ SampleResample
    \/ SampleReturn

SpecSample == InitSample /\ [][NextSample]_vars

\* -------------------------------------------------------- iterate_pagerank
InitIterate ==
    /\ InitCommon
    /\ corpus \in Graphs(MaxPages)
    /\ n = 1
    /\ pc = "iterate_pagerank"

\* 0.001
Threshold == Unit \div 1000

\* faulty variant: the loop waits for a round without any change
loopCondition_exact(change) == change > 0

\* while(pageRankChange > 0.001)
loopCondition(change) == change > Threshold

\* lines 186-192: only pages with at least one incoming link are keys
incomingIndex(c) ==
    [p \in UNION { c[q] : q \in DOMAIN c } |-> { q \in DOMAIN c : p \in c[q] }]

\* damping_factor * iterativePageRank[incomingPage]/len(corpus[incomingPage])
incomingShare(c, d, ranks, q) ==
    RoundDiv(TimesDamping(d, ranks[q]), Cardinality(c[q]))

RECURSIVE SumShares(_, _, _, _)
SumShares(c, d, ranks, S) ==
    IF S = {} THEN 0
    ELSE LET q == CHOOSE x \in S : TRUE
         IN  incomingShare(c, d, ranks, q) + SumShares(c, d, ranks, S \ {q})

\* lines 202-208, for a page with incoming pages
newPageRank(c, d, ranks, incoming, page) ==
    RoundDiv(One - Damping(d), Cardinality(DOMAIN c))
        + SumShares(c, d, ranks, incoming[page])

\* lines 168-194
IterStart ==
    /\ pc = "iterate_pagerank"
    /\ iterativePageRank' =
           [p \in DOMAIN corpus |-> RoundDiv(One, Cardinality(DOMAIN corpus))]
    /\ oldRanks' = iterativePageRank'
    /\ incomingPages' = incomingIndex(corpus)
    /\ pageRankChange' = One
    /\ pc' = "while"
    /\ UNCHANGED << inputs, outcome, pageToSample, i, transitionModel,
                    estimatedSamplePageRank, todo >>

\* lines 195, 199 and 215: the loop test; a new round begins or the function returns
IterWhile ==
    /\ pc = "while"
    /\ IF loopCondition(pageRankChange)
       THEN /\ pageRankChange' = 0
            /\ todo' = Keys(corpus)
            /\ oldRanks' = iterativePageRank
            /\ pc' = IF Keys(corpus) = << >> THEN "while" ELSE "for"
            /\ UNCHANGED outcome
       ELSE /\ pc' = "done"
            /\ outcome' = "returned"
            /\ UNCHANGED << pageRankChange, todo, oldRanks >>
    /\ UNCHANGED << inputs, pageToSample, i, transitionModel,
                    estimatedSamplePageRank, iterativePageRank, incomingPages >>

\* lines 200-212: one page of the round, its rank written in place
IterPage ==
    /\ pc = "for"
    /\ todo # << >>
    /\ LET page == Head(todo)
       IN  /\ pageToSample' = page
           /\ IF page \notin DOMAIN incomingPages
              THEN UNCHANGED << iterativePageRank, pageRankChange >>
              ELSE LET new == newPageRank(corpus, damping_factor,
                                          iterativePageRank, incomingPages, page)
                   IN  /\ pageRankChange' =
                              pageRankChange + Abs(iterativePageRank[page] - new)
                       /\ iterativePageRank' =
                              [iterativePageRank EXCEPT ![page] = new]
    /\ todo' = Tail(todo)
    /\ pc' = IF Tail(todo) = << >> THEN "while" ELSE "for"
    /\ UNCHANGED << inputs, outcome, i, transitionModel,
                    estimatedSamplePageRank, incomingPages, oldRanks >>

NextIterate ==
    \/ IterStart
    \/ IterWhile
    \/ IterPage

SpecIterate == InitIterate /\ [][NextIterate]_vars

\* the function runs to its end: a step is taken whenever one is possible
FairSpecIterate == SpecIterate /\ WF_vars(NextIterate)

\* ================================================================== claims
NumPages == Cardinality(DOMAIN corpus)

Range(s) == { s[k] : k \in DOMAIN s }

\* a/b of the unit, for quotients the unit holds exactly
Exact(a, b) == (Unit * a) \div b

IsExact(a, b) == (Unit * a) % b = 0

\* (1-d)/|graph| and d/|links(page)|, in closed form
BaseTerm == Exact(damping_factor[2] - damping_factor[1], damping_factor[2] * NumPages)

LinkTerm(page) ==
    Exact(damping_factor[1], damping_factor[2] * Cardinality(corpus[page]))

\* C1: for a non-empty graph, the mapping iterate_pagerank returns is a
\* probability distribution: every value in [0,1], the sum rounding to 1.000.
C1_IterateReturnsDistribution ==
    (pc = "done" /\ outcome = "returned" /\ DOMAIN corpus # {})
        => /\ \A p \in DOMAIN iterativePageRank :
                 iterativePageRank[p] >= 0 /\ iterativePageRank[p] <= One
           /\ Round3(SumValues(iterativePageRank)) = 1000

\* C2: the mapping an estimator returns for a non-empty graph has exactly the
\* graph's pages as its keys, pages the walk never visited included.
C2_ResultCoversEveryPage ==
    (pc = "done" /\ outcome = "returned" /\ DOMAIN corpus # {})
        => IF estimatedSamplePageRank # Empty
           THEN DOMAIN estimatedSamplePageRank = DOMAIN corpus
           ELSE DOMAIN iterativePageRank = DOMAIN corpus

\* C3: a page without incoming links holds the rank (1-d)/|graph| once a round
\* has visited it, and at return.
C3_NoIncomingGetsBaseTerm ==
    \A p \in DOMAIN corpus :
        (/\ p \notin DOMAIN incomingIndex(corpus)
         /\ \/ pc = "for" /\ p \notin Range(todo)
            \/ pc = "done" /\ outcome = "returned")
            => iterativePageRank[p] = BaseTerm

\* C4: for a page with at least one outbound link, transition_model returns a
\* mapping over all pages: d/|links| + (1-d)/|graph| for a linked page,
\* (1-d)/|graph| for every other page, the page itself included; the values
\* sum to 1.
C4_TransitionOfLinkingPage ==
    (pc = "done" /\ corpus[pageToSample] # {})
        => /\ outcome = "returned"
           /\ DOMAIN transitionModel = DOMAIN corpus
           /\ \A p \in DOMAIN corpus :
                 transitionModel[p] =
                     IF p \in corpus[pageToSample]
                     THEN LinkTerm(pageToSample) + BaseTerm
                     ELSE BaseTerm
           /\ transitionModel[pageToSample] = BaseTerm
           /\ SumValues(transitionModel) = One

\* the example of 0.85 in a graph of three pages: 0.475, 0.475 and 0.05
C4_Witness ==
    /\ pc = "done"
    /\ outcome = "returned"
    /\ NumPages = 3
    /\ damping_factor = <<17, 20>>
    /\ pageToSample = 1
    /\ corpus[1] = {2, 3}
    /\ transitionModel[2] = Exact(19, 40)
    /\ transitionModel[3] = Exact(19, 40)
    /\ transitionModel[1] = Exact(1, 20)

\* C5: for a page without outbound links, transition_model returns exactly
\* 1/N for every page of the graph, the sink included, whatever d is.
C5_TransitionOfSink ==
    (pc = "done" /\ corpus[pageToSample] = {})
        => /\ outcome = "returned"
           /\ DOMAIN transitionModel = DOMAIN corpus
           /\ IsExact(1, NumPages)
           /\ \A p \in DOMAIN corpus : transitionModel[p] = Exact(1, NumPages)

C5_Witness ==
    /\ pc = "done"
    /\ outcome = "returned"
    /\ NumPages = 3
    /\ corpus[pageToSample] = {}
    /\ \E q \in DOMAIN corpus : pageToSample \in corpus[q]
    /\ transitionModel[pageToSample] = Exact(1, 3)

\* C6: on a graph without pages an estimator ends with a precondition error:
\* it returns nothing and lets no fault of an inner operation through.
C6_EmptyGraphFailsFast ==
    (pc = "done" /\ DOMAIN corpus = {}) => outcome = "PreconditionError"

\* C7: the page credited in a step is the current page of the next step.
C7_CreditedPageIsNextCurrent ==
    [][(pc = "resample" /\ i + 1 < n) => pageToSample' = pageToSample]_vars

\* C8: a page's new rank in a round is computed from the ranks held when the
\* round began, never from a rank the same round has already written.
C8_RoundReadsSnapshot ==
    [][(pc = "for" /\ Head(todo) \in DOMAIN incomingPages)
          => iterativePageRank'[Head(todo)] =
                 newPageRank(corpus, damping_factor, oldRanks, incomingPages,
                             Head(todo))]_vars

Delta(old, new) ==
    SumOver([p \in DOMAIN new |-> Abs(old[p] - new[p])], DOMAIN new)

====
